---- MODULE Spec2Model ----
(***************************************************************************)
(* Finality engine of the Ethereum PoA bridge module                       *)
(* (bridges/modules/ethereum/src/finality.rs): the vote tally              *)
(* (FinalityVotes), its reconciliation with a cached snapshot              *)
(* (prepare_votes) and the finality walk (finalize_blocks), driven by a    *)
(* host that imports the headers of one linear chain.                      *)
(***************************************************************************)
EXTENDS Integers, Sequences, FiniteSets, TLC

(* ----------------------- bounds and input sets ------------------------ *)

\* Highest block number for which finalize_blocks is called.
MaxNumber == 3

\* Largest validators set of the majority-rule runs (validators 1..n).
MaxValidators == 5

\* Addresses that author headers and sign empty steps.
Addresses == {1, 2, 3}

\* The validator sets a behaviour may run with (one set per behaviour:
\* prepare_votes works with a single validators set).
ValidatorSets == {{}, {1, 2}, {1, 2, 3}}

\* Option<Submitter>: None, or Some(submitter).
None == 0
Submitters == {None, 1}

\* An empty step is modelled by what signature recovery yields for it: the
\* signer's address, or NoSigner when secp256k1_ecdsa_recover fails.
NoSigner == 0

\* Empty steps sealed in an imported header.
EmptySteps == {<<>>, <<NoSigner, 3>>}

\* Values of two_thirds_majority_transition.
Transitions == {2, MaxNumber + 2}

(* ------------------------------ data ---------------------------------- *)

\* BTreeMap::new()
EmptyMap == [a \in {} |-> 0]

\* impl Default for FinalityVotes
DefaultFinalityVotes == [votes |-> EmptyMap, ancestry |-> <<>>]

\* Header::compute_hash: an injective digest of the header, which covers the
\* parent hash and so the whole chain below it.
compute_hash(header) ==
    Append(header.parent_hash, <<header.author, header.empty_steps>>)

\* Header::compute_id
compute_id(header) == [number |-> header.number, hash |-> compute_hash(header)]

\* HeaderId::default() is the id the tests pass for genesis.
GenesisHash == <<>>
GenesisId == [number |-> 0, hash |-> GenesisHash]

Min(S) == CHOOSE x \in S : \A y \in S : x <= y

(* ------------------------- signer extraction -------------------------- *)

\* Option<Address> as a set of at most one address.
empty_step_signer(empty_step) ==
    IF empty_step = NoSigner THEN {} ELSE {empty_step}

empty_steps_signers(header) ==
    UNION {empty_step_signer(header.empty_steps[i]) : i \in DOMAIN header.empty_steps}

(* ------------------------- vote bookkeeping --------------------------- *)

\* Mutant: signers are not checked against the validators set.
RECURSIVE add_signers_votes_unchecked(_, _, _)
add_signers_votes_unchecked(validators, signers_to_add, votes) ==
    IF signers_to_add = {} THEN [ok |-> TRUE, votes |-> votes]
    ELSE LET signer == Min(signers_to_add) IN
         add_signers_votes_unchecked(
           validators,
           signers_to_add \ {signer},
           IF signer \in DOMAIN votes
           THEN [votes EXCEPT ![signer] = @ + 1]
           ELSE [a \in DOMAIN votes \cup {signer} |->
                   IF a = signer THEN 1 ELSE votes[a]])

\* Mutant: a signer already in the map keeps its count (insert without += 1).
RECURSIVE add_signers_votes_no_increment(_, _, _)
add_signers_votes_no_increment(validators, signers_to_add, votes) ==
    IF signers_to_add = {} THEN [ok |-> TRUE, votes |-> votes]
    ELSE LET signer == Min(signers_to_add) IN
         IF signer \notin validators THEN [ok |-> FALSE, votes |-> votes]
         ELSE add_signers_votes_no_increment(
                validators,
                signers_to_add \ {signer},
                IF signer \in DOMAIN votes
                THEN votes
                ELSE [a \in DOMAIN votes \cup {signer} |->
                        IF a = signer THEN 1 ELSE votes[a]])

\* Result: ok = FALSE for Err(NotValidator); votes holds what had been added
\* when the function returned.
RECURSIVE add_signers_votes(_, _, _)
add_signers_votes(validators, signers_to_add, votes) ==
    IF signers_to_add = {} THEN [ok |-> TRUE, votes |-> votes]
    ELSE LET signer == Min(signers_to_add) IN
         IF signer \notin validators THEN [ok |-> FALSE, votes |-> votes]
         ELSE add_signers_votes(
                validators,
                signers_to_add \ {signer},
                IF signer \in DOMAIN votes
                THEN [votes EXCEPT ![signer] = @ + 1]
                ELSE [a \in DOMAIN votes \cup {signer} |->
                        IF a = signer THEN 1 ELSE votes[a]])

\* Mutant: the entry is removed at count 0 instead of at count <= 1.
RECURSIVE remove_signers_votes_keeps_zero(_, _)
remove_signers_votes_keeps_zero(signers_to_remove, votes) ==
    IF signers_to_remove = {} THEN [panic |-> FALSE, votes |-> votes]
    ELSE LET signer == Min(signers_to_remove) IN
         IF signer \notin DOMAIN votes THEN [panic |-> TRUE, votes |-> votes]
         ELSE remove_signers_votes_keeps_zero(
                signers_to_remove \ {signer},
                IF votes[signer] < 1
                THEN [a \in DOMAIN votes \ {signer} |-> votes[a]]
                ELSE [votes EXCEPT ![signer] = @ - 1])

\* Mutant: the entry is removed whatever its count, so a validator credited
\* on several blocks stops counting with the first of them.
RECURSIVE remove_signers_votes_drops_entry(_, _)
remove_signers_votes_drops_entry(signers_to_remove, votes) ==
    IF signers_to_remove = {} THEN [panic |-> FALSE, votes |-> votes]
    ELSE LET signer == Min(signers_to_remove) IN
         IF signer \notin DOMAIN votes THEN [panic |-> TRUE, votes |-> votes]
         ELSE remove_signers_votes_drops_entry(
                signers_to_remove \ {signer},
                [a \in DOMAIN votes \ {signer} |-> votes[a]])

\* Result: panic = TRUE when the Entry::Vacant arm (unreachable!) is taken.
RECURSIVE remove_signers_votes(_, _)
remove_signers_votes(signers_to_remove, votes) ==
    IF signers_to_remove = {} THEN [panic |-> FALSE, votes |-> votes]
    ELSE LET signer == Min(signers_to_remove) IN
         IF signer \notin DOMAIN votes THEN [panic |-> TRUE, votes |-> votes]
         ELSE remove_signers_votes(
                signers_to_remove \ {signer},
                IF votes[signer] <= 1
                THEN [a \in DOMAIN votes \ {signer} |-> votes[a]]
                ELSE [votes EXCEPT ![signer] = @ - 1])

(* --------------------------- prepare_votes ---------------------------- *)

\* Mutant: the loop stops at number >= best_finalized_number, so the entry
\* of the best finalized header itself is kept.
RECURSIVE remove_finalized_votes_off_by_one(_, _)
remove_finalized_votes_off_by_one(votes, best_finalized_number) ==
    IF votes.ancestry = <<>> THEN [panic |-> FALSE, votes |-> votes]
    ELSE LET old_ancestor == Head(votes.ancestry) IN
         IF old_ancestor.id.number >= best_finalized_number
         THEN [panic |-> FALSE, votes |-> votes]
         ELSE LET removed == remove_signers_votes(old_ancestor.signers, votes.votes)
                  popped == [votes |-> removed.votes, ancestry |-> Tail(votes.ancestry)]
              IN IF removed.panic THEN [panic |-> TRUE, votes |-> popped]
                 ELSE remove_finalized_votes_off_by_one(popped, best_finalized_number)

\* Mutant: the prune loop is skipped, the cached tally is used as it is.
remove_finalized_votes_skipped(votes, best_finalized_number) ==
    [panic |-> FALSE, votes |-> votes]

\* The loop "remove votes from finalized blocks": pops cached ancestors from
\* the front while their number is <= best_finalized_number.
RECURSIVE remove_finalized_votes(_, _)
remove_finalized_votes(votes, best_finalized_number) ==
    IF votes.ancestry = <<>> THEN [panic |-> FALSE, votes |-> votes]
    ELSE LET old_ancestor == Head(votes.ancestry) IN
         IF old_ancestor.id.number > best_finalized_number
         THEN [panic |-> FALSE, votes |-> votes]
         ELSE LET removed == remove_signers_votes(old_ancestor.signers, votes.votes)
                  popped == [votes |-> removed.votes, ancestry |-> Tail(votes.ancestry)]
              IN IF removed.panic THEN [panic |-> TRUE, votes |-> popped]
                 ELSE remove_finalized_votes(popped, best_finalized_number)

\* Mutant: the new ancestors are collected with push_back, newest first.
RECURSIVE add_unaccounted_votes_push_back(_, _, _, _, _)
add_unaccounted_votes_push_back(validators, queue, parent_empty_step_signers, votes, unaccounted_ancestry) ==
    IF queue = <<>>
    THEN [ok |-> TRUE, votes |-> votes, unaccounted_ancestry |-> unaccounted_ancestry]
    ELSE LET ancestor == Head(queue)
             signers == parent_empty_step_signers \cup {ancestor.header.author}
             added == add_signers_votes(validators, signers, votes)
         IN IF ~added.ok
            THEN [ok |-> FALSE, votes |-> added.votes,
                  unaccounted_ancestry |-> unaccounted_ancestry]
            ELSE add_unaccounted_votes_push_back(
                   validators,
                   Tail(queue),
                   empty_steps_signers(ancestor.header),
                   added.votes,
                   Append(unaccounted_ancestry,
                          [id |-> ancestor.id, submitter |-> ancestor.submitter,
                           signers |-> signers]))

\* Mutant: every ancestor is credited with the empty steps sealed in itself
\* (the swap with parent_empty_step_signers is missing).
RECURSIVE add_unaccounted_votes_own_steps(_, _, _, _, _)
add_unaccounted_votes_own_steps(validators, queue, parent_empty_step_signers, votes, unaccounted_ancestry) ==
    IF queue = <<>>
    THEN [ok |-> TRUE, votes |-> votes, unaccounted_ancestry |-> unaccounted_ancestry]
    ELSE LET ancestor == Head(queue)
             signers == empty_steps_signers(ancestor.header) \cup {ancestor.header.author}
             added == add_signers_votes(validators, signers, votes)
         IN IF ~added.ok
            THEN [ok |-> FALSE, votes |-> added.votes,
                  unaccounted_ancestry |-> unaccounted_ancestry]
            ELSE add_unaccounted_votes_own_steps(
                   validators,
                   Tail(queue),
                   parent_empty_step_signers,
                   added.votes,
                   <<[id |-> ancestor.id, submitter |-> ancestor.submitter,
                      signers |-> signers]>> \o unaccounted_ancestry)

\* Mutant: the result of add_signers_votes is dropped (no ?), so the loop
\* goes on with the votes added before the rejected signer.
RECURSIVE add_unaccounted_votes_ignores_error(_, _, _, _, _)
add_unaccounted_votes_ignores_error(validators, queue, parent_empty_step_signers, votes, unaccounted_ancestry) ==
    IF queue = <<>>
    THEN [ok |-> TRUE, votes |-> votes, unaccounted_ancestry |-> unaccounted_ancestry]
    ELSE LET ancestor == Head(queue)
             signers == parent_empty_step_signers \cup {ancestor.header.author}
             added == add_signers_votes(validators, signers, votes)
         IN add_unaccounted_votes_ignores_error(
              validators,
              Tail(queue),
              empty_steps_signers(ancestor.header),
              added.votes,
              <<[id |-> ancestor.id, submitter |-> ancestor.submitter,
                 signers |-> signers]>> \o unaccounted_ancestry)

\* The loop "add votes from new blocks": queue is cached_votes.unaccounted_ancestry
\* (newest first), unaccounted_ancestry the deque built by push_front.
RECURSIVE add_unaccounted_votes(_, _, _, _, _)
add_unaccounted_votes(validators, queue, parent_empty_step_signers, votes, unaccounted_ancestry) ==
    IF queue = <<>>
    THEN [ok |-> TRUE, votes |-> votes, unaccounted_ancestry |-> unaccounted_ancestry]
    ELSE LET ancestor == Head(queue)
             signers == parent_empty_step_signers \cup {ancestor.header.author}
             added == add_signers_votes(validators, signers, votes)
         IN IF ~added.ok
            THEN [ok |-> FALSE, votes |-> added.votes,
                  unaccounted_ancestry |-> unaccounted_ancestry]
            ELSE add_unaccounted_votes(
                   validators,
                   Tail(queue),
                   empty_steps_signers(ancestor.header),
                   added.votes,
                   <<[id |-> ancestor.id, submitter |-> ancestor.submitter,
                      signers |-> signers]>> \o unaccounted_ancestry)

\* Mutant: the author's count is set to 1 instead of being incremented.
add_header_votes_overwrites(votes, id, header, submitter) ==
    [votes |-> [a \in DOMAIN votes.votes \cup {header.author} |->
                  IF a = header.author THEN 1 ELSE votes.votes[a]],
     ancestry |-> Append(votes.ancestry,
                         [id |-> id, submitter |-> submitter,
                          signers |-> {header.author}])]

\* The closing block "add votes from block itself".
add_header_votes(votes, id, header, submitter) ==
    [votes |-> IF header.author \in DOMAIN votes.votes
               THEN [votes.votes EXCEPT ![header.author] = @ + 1]
               ELSE [a \in DOMAIN votes.votes \cup {header.author} |->
                       IF a = header.author THEN 1 ELSE votes.votes[a]],
     ancestry |-> Append(votes.ancestry,
                         [id |-> id, submitter |-> submitter,
                          signers |-> {header.author}])]

\* The body of prepare_votes after the check of the header's author.
prepare_votes_merge(cached_votes, best_finalized_number, validators, id, header, submitter) ==
    LET votes == IF cached_votes.votes = <<>> THEN DefaultFinalityVotes
                 ELSE cached_votes.votes[1]
        pruned == remove_finalized_votes(votes, best_finalized_number)
        added == add_unaccounted_votes(validators, cached_votes.unaccounted_ancestry,
                                       empty_steps_signers(header),
                                       pruned.votes.votes, <<>>)
    IN IF pruned.panic THEN [status |-> "Panic", votes |-> DefaultFinalityVotes]
       ELSE IF ~added.ok THEN [status |-> "NotValidator", votes |-> DefaultFinalityVotes]
       ELSE [status |-> "Ok",
             votes |-> add_header_votes(
                         [votes |-> added.votes,
                          ancestry |-> pruned.votes.ancestry \o added.unaccounted_ancestry],
                         id, header, submitter)]

\* Mutant: the author of the importing header is not checked.
prepare_votes_unchecked_author(cached_votes, best_finalized_number, validators, id, header, submitter) ==
    prepare_votes_merge(cached_votes, best_finalized_number, validators, id, header, submitter)

\* cached_votes = [unaccounted_ancestry, votes]; votes is an Option:
\* <<>> for None, <<v>> for Some(v).
\* Result: status "Ok" with the tally, "NotValidator", or "Panic" (unreachable!).
prepare_votes(cached_votes, best_finalized_number, validators, id, header, submitter) ==
    IF header.author \notin validators
    THEN [status |-> "NotValidator", votes |-> DefaultFinalityVotes]
    ELSE prepare_votes_merge(cached_votes, best_finalized_number, validators, id, header,
                             submitter)

(* -------------------------- finalize_blocks --------------------------- *)

\* Mutant: the comparisons are not strict.
is_finalized_non_strict(validators, votes, requires_two_thirds_majority) ==
    \/ (~requires_two_thirds_majority
        /\ Cardinality(DOMAIN votes) * 2 >= Cardinality(validators))
    \/ (requires_two_thirds_majority
        /\ Cardinality(DOMAIN votes) * 3 >= Cardinality(validators) * 2)

is_finalized(validators, votes, requires_two_thirds_majority) ==
    \/ (~requires_two_thirds_majority
        /\ Cardinality(DOMAIN votes) * 2 > Cardinality(validators))
    \/ (requires_two_thirds_majority
        /\ Cardinality(DOMAIN votes) * 3 > Cardinality(validators) * 2)

\* Mutant: finalized headers are collected newest first.
RECURSIVE finalized_walk_push_front(_, _, _, _, _)
finalized_walk_push_front(validators, ancestry, current_votes, two_thirds_majority_transition, finalized_headers) ==
    IF ancestry = <<>>
    THEN [panic |-> FALSE, finalized_headers |-> finalized_headers,
          current_votes |-> current_votes]
    ELSE LET ancestor == Head(ancestry) IN
         IF ~is_finalized(validators, current_votes,
                          ancestor.id.number >= two_thirds_majority_transition)
         THEN [panic |-> FALSE, finalized_headers |-> finalized_headers,
               current_votes |-> current_votes]
         ELSE LET removed == remove_signers_votes(ancestor.signers, current_votes) IN
              IF removed.panic
              THEN [panic |-> TRUE, finalized_headers |-> finalized_headers,
                    current_votes |-> removed.votes]
              ELSE finalized_walk_push_front(
                     validators, Tail(ancestry), removed.votes,
                     two_thirds_majority_transition,
                     <<<<ancestor.id, ancestor.submitter>>>> \o finalized_headers)

\* Mutant: the two-thirds rule starts one block after the transition.
RECURSIVE finalized_walk_late_transition(_, _, _, _, _)
finalized_walk_late_transition(validators, ancestry, current_votes, two_thirds_majority_transition, finalized_headers) ==
    IF ancestry = <<>>
    THEN [panic |-> FALSE, finalized_headers |-> finalized_headers,
          current_votes |-> current_votes]
    ELSE LET ancestor == Head(ancestry) IN
         IF ~is_finalized(validators, current_votes,
                          ancestor.id.number > two_thirds_majority_transition)
         THEN [panic |-> FALSE, finalized_headers |-> finalized_headers,
               current_votes |-> current_votes]
         ELSE LET removed == remove_signers_votes(ancestor.signers, current_votes) IN
              IF removed.panic
              THEN [panic |-> TRUE, finalized_headers |-> finalized_headers,
                    current_votes |-> removed.votes]
              ELSE finalized_walk_late_transition(
                     validators, Tail(ancestry), removed.votes,
                     two_thirds_majority_transition,
                     Append(finalized_headers, <<ancestor.id, ancestor.submitter>>))

\* Mutant: the walk leaves the votes of a finalized ancestor in the map.
RECURSIVE finalized_walk_keeps_votes(_, _, _, _, _)
finalized_walk_keeps_votes(validators, ancestry, current_votes, two_thirds_majority_transition, finalized_headers) ==
    IF ancestry = <<>>
    THEN [panic |-> FALSE, finalized_headers |-> finalized_headers,
          current_votes |-> current_votes]
    ELSE LET ancestor == Head(ancestry) IN
         IF ~is_finalized(validators, current_votes,
                          ancestor.id.number >= two_thirds_majority_transition)
         THEN [panic |-> FALSE, finalized_headers |-> finalized_headers,
               current_votes |-> current_votes]
         ELSE finalized_walk_keeps_votes(
                validators, Tail(ancestry), current_votes,
                two_thirds_majority_transition,
                Append(finalized_headers, <<ancestor.id, ancestor.submitter>>))

\* The loop over &votes.ancestry: ancestry is what is left to visit,
\* current_votes the working copy of the vote map.
RECURSIVE finalized_walk(_, _, _, _, _)
finalized_walk(validators, ancestry, current_votes, two_thirds_majority_transition, finalized_headers) ==
    IF ancestry = <<>>
    THEN [panic |-> FALSE, finalized_headers |-> finalized_headers,
          current_votes |-> current_votes]
    ELSE LET ancestor == Head(ancestry) IN
         IF ~is_finalized(validators, current_votes,
                          ancestor.id.number >= two_thirds_majority_transition)
         THEN [panic |-> FALSE, finalized_headers |-> finalized_headers,
               current_votes |-> current_votes]
         ELSE LET removed == remove_signers_votes(ancestor.signers, current_votes) IN
              IF removed.panic
              THEN [panic |-> TRUE, finalized_headers |-> finalized_headers,
                    current_votes |-> removed.votes]
              ELSE finalized_walk(validators, Tail(ancestry), removed.votes,
                                  two_thirds_majority_transition,
                                  Append(finalized_headers,
                                         <<ancestor.id, ancestor.submitter>>))

\* Storage::cached_finality_votes: walks parent links back from hash until
\* stop_at (the set of hashes the stop predicate accepts) or a cached tally.
RECURSIVE cached_finality_votes_from(_, _, _, _)
cached_finality_votes_from(storage, current_hash, stop_at, votes) ==
    IF current_hash \in stop_at THEN votes
    ELSE IF current_hash \in DOMAIN storage.finality_cache
    THEN [votes EXCEPT !.votes = <<storage.finality_cache[current_hash]>>]
    ELSE LET found == {i \in DOMAIN storage.headers :
                         storage.headers[i].id.hash = current_hash} IN
         IF found = {} THEN votes
         ELSE LET stored == storage.headers[Min(found)] IN
              cached_finality_votes_from(
                storage, stored.header.parent_hash, stop_at,
                [votes EXCEPT !.unaccounted_ancestry = Append(@, stored)])

cached_finality_votes(storage, hash, stop_at) ==
    cached_finality_votes_from(storage, hash, stop_at,
                               [unaccounted_ancestry |-> <<>>, votes |-> <<>>])

\* Mutant: the walk works on the tally itself, so the returned vote map has
\* lost the votes of the finalized headers.
finalize_blocks_returns_working_votes(storage, best_finalized, header_validators, id, submitter, header, two_thirds_majority_transition) ==
    LET validators == header_validators[2]
        prepared == prepare_votes(
                      cached_finality_votes(storage, header.parent_hash,
                                            {header_validators[1].hash, best_finalized.hash}),
                      best_finalized.number, validators, id, header, submitter)
        walk == finalized_walk(validators, prepared.votes.ancestry, prepared.votes.votes,
                               two_thirds_majority_transition, <<>>)
    IN IF prepared.status # "Ok"
       THEN [status |-> prepared.status, finalized_headers |-> <<>>,
             votes |-> prepared.votes]
       ELSE IF walk.panic
       THEN [status |-> "Panic", finalized_headers |-> <<>>, votes |-> DefaultFinalityVotes]
       ELSE [status |-> "Ok", finalized_headers |-> walk.finalized_headers,
             votes |-> [votes |-> walk.current_votes, ancestry |-> prepared.votes.ancestry]]

\* header_validators = <<id of the header the set is valid from, the set>>.
finalize_blocks(storage, best_finalized, header_validators, id, submitter, header, two_thirds_majority_transition) ==
    LET validators == header_validators[2]
        prepared == prepare_votes(
                      cached_finality_votes(storage, header.parent_hash,
                                            {header_validators[1].hash, best_finalized.hash}),
                      best_finalized.number, validators, id, header, submitter)
        walk == finalized_walk(validators, prepared.votes.ancestry, prepared.votes.votes,
                               two_thirds_majority_transition, <<>>)
    IN IF prepared.status # "Ok"
       THEN [status |-> prepared.status, finalized_headers |-> <<>>,
             votes |-> prepared.votes]
       ELSE IF walk.panic
       THEN [status |-> "Panic", finalized_headers |-> <<>>, votes |-> DefaultFinalityVotes]
       ELSE [status |-> "Ok", finalized_headers |-> walk.finalized_headers,
             votes |-> prepared.votes]

(* ------------------------------ the host ------------------------------ *)

VARIABLES
    headers,          \* imported headers, oldest first: [id, submitter, header]
    finality_cache,   \* FinalityCache: hash -> FinalityVotes
    best_finalized,   \* HeaderId of the best finalized header
    validators_set,   \* the validators set in effect
    transition,       \* two_thirds_majority_transition of the configuration
    result,           \* the last finalize_blocks call: its arguments and outcome
    finalized_log     \* history: the finalized headers the host has committed,
                      \* each with the number of the import that reported it

vars == <<headers, finality_cache, best_finalized, validators_set, transition, result, finalized_log>>

Storage == [headers |-> headers, finality_cache |-> finality_cache]

BestHash == IF headers = <<>> THEN GenesisHash ELSE headers[Len(headers)].id.hash

NoHeader == [number |-> 0, author |-> 0, parent_hash |-> GenesisHash, empty_steps |-> <<>>]

NoResult ==
    [status |-> "None", finalized_headers |-> <<>>, votes |-> DefaultFinalityVotes,
     cached |-> [unaccounted_ancestry |-> <<>>, votes |-> <<>>],
     best_finalized |-> GenesisId, id |-> GenesisId, submitter |-> None,
     header |-> NoHeader]

Init ==
    /\ headers = <<>>
    /\ finality_cache = [h \in {} |-> DefaultFinalityVotes]
    /\ best_finalized = GenesisId
    /\ validators_set \in ValidatorSets
    /\ transition \in Transitions
    /\ result = NoResult
    /\ finalized_log = <<>>

\* The import pipeline calls finalize_blocks for a child of the best header,
\* whose number is at most limit.
CallFinalizeBlocks(limit, author, empty_steps, submitter) ==
    /\ result.status = "None"
    /\ Len(headers) < limit
    /\ LET header == [number |-> Len(headers) + 1, author |-> author,
                      parent_hash |-> BestHash, empty_steps |-> empty_steps]
           id == compute_id(header)
           effects == finalize_blocks(Storage, best_finalized, <<GenesisId, validators_set>>,
                                      id, submitter, header, transition)
       IN result' = [status |-> effects.status,
                     finalized_headers |-> effects.finalized_headers,
                     votes |-> effects.votes,
                     cached |-> cached_finality_votes(Storage, header.parent_hash,
                                                      {GenesisHash, best_finalized.hash}),
                     best_finalized |-> best_finalized, id |-> id,
                     submitter |-> submitter, header |-> header]
    /\ UNCHANGED <<headers, finality_cache, best_finalized, validators_set, transition, finalized_log>>

FinalizeBlocks(author, empty_steps, submitter) ==
    CallFinalizeBlocks(MaxNumber, author, empty_steps, submitter)

\* The host commits a successful import: it stores the header, optionally
\* caches the returned tally under the header's hash, and advances
\* best_finalized to the last of finalized_headers.
CommitHeader(limit, store) ==
    /\ result.status = "Ok"
    /\ result.id.number < limit
    /\ headers' = Append(headers, [id |-> result.id, submitter |-> result.submitter,
                                   header |-> result.header])
    /\ finality_cache' =
         IF store
         THEN [h \in DOMAIN finality_cache \cup {result.id.hash} |->
                 IF h = result.id.hash THEN result.votes ELSE finality_cache[h]]
         ELSE finality_cache
    /\ best_finalized' =
         IF result.finalized_headers = <<>> THEN best_finalized
         ELSE result.finalized_headers[Len(result.finalized_headers)][1]
    /\ finalized_log' =
         finalized_log \o [i \in DOMAIN result.finalized_headers |->
                             [id |-> result.finalized_headers[i][1],
                              submitter |-> result.finalized_headers[i][2],
                              at |-> result.id.number]]
    /\ result' = NoResult
    /\ UNCHANGED <<validators_set, transition>>

InsertHeader(store) == CommitHeader(MaxNumber, store)

\* The import is rejected (always so after an error): nothing is stored.
RejectHeader ==
    /\ result.status # "None"
    /\ result' = NoResult
    /\ UNCHANGED <<headers, finality_cache, best_finalized, validators_set, transition, finalized_log>>

Next ==
    \/ \E author \in Addresses, empty_steps \in EmptySteps, submitter \in Submitters :
         FinalizeBlocks(author, empty_steps, submitter)
    \/ \E store \in BOOLEAN : InsertHeader(store)
    \/ RejectHeader

Spec == Init /\ [][Next]_vars

\* Majority-rule runs: validators 1..n, headers without empty steps and
\* without submitter, as in tests::finalize_blocks_works.
InitMajority ==
    /\ headers = <<>>
    /\ finality_cache = [h \in {} |-> DefaultFinalityVotes]
    /\ best_finalized = GenesisId
    /\ validators_set \in {1..n : n \in 1..MaxValidators}
    /\ transition \in Transitions
    /\ result = NoResult
    /\ finalized_log = <<>>

NextMajority ==
    \/ \E author \in 1..MaxValidators : FinalizeBlocks(author, <<>>, None)
    \/ \E store \in BOOLEAN : InsertHeader(store)
    \/ RejectHeader

SpecMajority == InitMajority /\ [][NextMajority]_vars

\* Headers put into the storage directly, without a finality check and
\* without a cached tally, as tests::prepare_votes_respects_finality_cache
\* does with insert_header.
StoreHeader(author, empty_steps) ==
    /\ result.status = "None"
    /\ Len(headers) < MaxNumber - 1
    /\ LET header == [number |-> Len(headers) + 1, author |-> author,
                      parent_hash |-> BestHash, empty_steps |-> empty_steps]
       IN headers' = Append(headers, [id |-> compute_id(header), submitter |-> None,
                                      header |-> header])
    /\ UNCHANGED <<finality_cache, best_finalized, validators_set, transition, result, finalized_log>>

\* Replay runs: finalize_blocks is called on top of headers stored directly,
\* so the whole chain is replayed as unaccounted ancestry.
NextReplay ==
    \/ \E author \in Addresses, empty_steps \in EmptySteps : StoreHeader(author, empty_steps)
    \/ \E author \in Addresses, empty_steps \in EmptySteps, submitter \in Submitters :
         FinalizeBlocks(author, empty_steps, submitter)
    \/ RejectHeader

SpecReplay == Init /\ [][NextReplay]_vars

(* ------------------------- shared definitions ------------------------- *)

Returned == result.status = "Ok"

Ancestry == result.votes.ancestry

VotesOf(tally, a) == IF a \in DOMAIN tally.votes THEN tally.votes[a] ELSE 0

\* Number of entries of an ancestry that credit address a.
Credits(ancestry, a) == Cardinality({i \in DOMAIN ancestry : a \in ancestry[i].signers})

\* The cache lookup of the call when no tally is cached at all: every header
\* after best_finalized is delivered as unaccounted_ancestry.
RescanLookup ==
    cached_finality_votes([headers |-> headers, finality_cache |-> [h \in {} |-> DefaultFinalityVotes]],
                          result.header.parent_hash,
                          {GenesisHash, result.best_finalized.hash})

FullRescan ==
    prepare_votes(RescanLookup, result.best_finalized.number, validators_set,
                  result.id, result.header, result.submitter)

(* ------------------------------- claims ------------------------------- *)

\* C1: the tally returned for a header is the tally a full rescan (no cached
\* snapshot, all headers after best_finalized as unaccounted ancestry)
\* computes for the same header, best_finalized and validators.
C1_RescanEquivalence ==
    Returned => /\ FullRescan.status = "Ok"
                /\ FullRescan.votes = result.votes

\* C2: in every returned tally, and in every tally the host has cached, the
\* vote count of each address is the number of ancestry entries whose signers
\* contain it, and no address is stored with count 0.
TallyConsistent(tally) ==
    /\ \A a \in Addresses : VotesOf(tally, a) = Credits(tally.ancestry, a)
    /\ \A a \in DOMAIN tally.votes : tally.votes[a] > 0
    /\ DOMAIN tally.votes \subseteq Addresses

C2_VotesMatchAncestry ==
    /\ Returned => TallyConsistent(result.votes)
    /\ \A h \in DOMAIN finality_cache : TallyConsistent(finality_cache[h])

\* C2 witness: a tally returned from a pruned cached snapshot in which an
\* address holds two votes.
C2_Witness ==
    /\ Returned
    /\ result.cached.votes # <<>>
    /\ \E i \in DOMAIN result.cached.votes[1].ancestry :
         result.cached.votes[1].ancestry[i].id.number <= result.best_finalized.number
    /\ \E a \in DOMAIN result.votes.votes : result.votes.votes[a] >= 2

\* The cached entries of the call that prepare_votes has to remove / keep.
CachedAncestry == IF result.cached.votes = <<>> THEN <<>> ELSE result.cached.votes[1].ancestry
CachedTally == IF result.cached.votes = <<>> THEN DefaultFinalityVotes ELSE result.cached.votes[1]
Finalized(ancestry) ==
    {i \in DOMAIN ancestry : ancestry[i].id.number <= result.best_finalized.number}

\* C3: the returned ancestry has no entry with number <= best_finalized_number;
\* the cached entries with such numbers are the leading ones and are gone with
\* one vote per signer, and the cached entries after them are all retained.
C3_PruningCorrect ==
    Returned =>
      LET removed == Cardinality(Finalized(CachedAncestry))
          kept == Len(CachedAncestry) - removed
      IN /\ Finalized(Ancestry) = {}
         /\ Finalized(CachedAncestry) = 1..removed
         /\ kept <= Len(Ancestry)
         /\ \A i \in 1..kept : Ancestry[i] = CachedAncestry[removed + i]
         /\ \A a \in Addresses :
              VotesOf(result.votes, a) =
                VotesOf(CachedTally, a)
                - Credits(SubSeq(CachedAncestry, 1, removed), a)
                + Credits(SubSeq(Ancestry, kept + 1, Len(Ancestry)), a)

\* C3 witness: the cached snapshot holds a finalized entry followed by an
\* entry that is not finalized.
C3_Witness ==
    /\ Returned
    /\ Finalized(CachedAncestry) # {}
    /\ Len(CachedAncestry) > Cardinality(Finalized(CachedAncestry))

\* C4: finalized_headers is a prefix of the returned ancestry, in the same
\* order, with ascending consecutive block numbers.
C4_FinalizedIsPrefix ==
    Returned =>
      /\ Len(result.finalized_headers) <= Len(Ancestry)
      /\ \A i \in DOMAIN result.finalized_headers :
           result.finalized_headers[i] = <<Ancestry[i].id, Ancestry[i].submitter>>
      /\ \A i \in DOMAIN result.finalized_headers :
           i > 1 => result.finalized_headers[i][1].number
                      = result.finalized_headers[i - 1][1].number + 1

\* C4 witness: one call finalizes two headers and stops before the end.
C4_Witness ==
    /\ Returned
    /\ Len(result.finalized_headers) >= 2
    /\ Len(result.finalized_headers) < Len(Ancestry)

\* C5: a call for a header whose author is not in the validators set returns
\* NotValidator.
C5_AuthorNotValidator ==
    (result.status # "None" /\ result.header.author \notin validators_set)
      => result.status = "NotValidator"

\* C5 witness: the author is rejected although a cached tally and unaccounted
\* ancestry were found.
C5_Witness ==
    /\ result.status = "NotValidator"
    /\ result.header.author \notin validators_set
    /\ result.cached.votes # <<>>
    /\ result.cached.unaccounted_ancestry # <<>>

\* C5 witness for the empty validators set.
C5_WitnessEmptySet ==
    /\ result.status = "NotValidator"
    /\ validators_set = {}

\* The headers of the chain up to and including the header of the call.
ChainHeaders == [i \in 1..Len(headers) |-> headers[i].header] \o <<result.header>>

\* The case of C6: two-thirds transition above the chain, best_finalized at
\* genesis, no empty steps, every header authored by a different validator.
MajorityCase ==
    /\ Returned
    /\ transition > result.id.number
    /\ result.best_finalized = GenesisId
    /\ \A i \in DOMAIN ChainHeaders : ChainHeaders[i].empty_steps = <<>>
    /\ \A i, j \in DOMAIN ChainHeaders :
         i # j => ChainHeaders[i].author # ChainHeaders[j].author

\* C6: in the majority case with n validators, importing header #k finalizes
\* nothing while 2k <= n, and the first import with 2k > n finalizes exactly
\* header #1.
C6_MajorityRule ==
    MajorityCase =>
      LET k == result.id.number
          n == Cardinality(validators_set)
          first == IF headers = <<>> THEN <<result.id, result.submitter>>
                   ELSE <<headers[1].id, headers[1].submitter>>
      IN /\ 2 * k <= n => result.finalized_headers = <<>>
         /\ (2 * k > n /\ 2 * (k - 1) <= n) => result.finalized_headers = <<first>>

\* C6 witness: 5 validators, header #3 is imported and header #1 is finalized.
C6_Witness ==
    /\ MajorityCase
    /\ Cardinality(validators_set) = 5
    /\ result.id.number = 3
    /\ Len(headers) = 2
    /\ result.finalized_headers = <<<<headers[1].id, None>>>>

\* Distinct validators with a vote left when the walk reaches entry i: those
\* credited by entry i or a later entry.
VotersFrom(i) == Cardinality(UNION {Ancestry[j].signers : j \in i..Len(Ancestry)})

\* The threshold selected by an ancestor's own number.
Passes(number, voters) ==
    IF number >= transition
    THEN voters * 3 > Cardinality(validators_set) * 2
    ELSE voters * 2 > Cardinality(validators_set)

\* C7: every finalized ancestor passed the threshold selected by its own
\* number (1/2 below the transition, 2/3 from the transition on, both strict),
\* and the first ancestor that is not finalized failed its threshold.
C7_ThresholdByAncestorNumber ==
    Returned =>
      LET f == Len(result.finalized_headers) IN
      /\ \A i \in 1..f : Passes(Ancestry[i].id.number, VotersFrom(i))
      /\ f < Len(Ancestry) => ~Passes(Ancestry[f + 1].id.number, VotersFrom(f + 1))

\* C7 witness: the ancestor whose number is the transition is held back by
\* exactly two thirds of the validators, which is more than half.
C7_Witness ==
    /\ Returned
    /\ LET f == Len(result.finalized_headers) IN
       /\ f < Len(Ancestry)
       /\ Ancestry[f + 1].id.number = transition
       /\ VotersFrom(f + 1) * 3 = Cardinality(validators_set) * 2
       /\ VotersFrom(f + 1) * 2 > Cardinality(validators_set)

\* C7 witness for the majority rule: exactly half of the validators does not
\* finalize an ancestor below the transition.
C7_WitnessHalf ==
    /\ Returned
    /\ LET f == Len(result.finalized_headers) IN
       /\ f < Len(Ancestry)
       /\ Ancestry[f + 1].id.number < transition
       /\ VotersFrom(f + 1) * 2 = Cardinality(validators_set)

Contiguous(ancestry) ==
    \A i \in DOMAIN ancestry : ancestry[i].id.number = ancestry[1].id.number + i - 1

\* C8: the ancestry of every returned tally has consecutive, strictly
\* increasing block numbers, ends with the imported header and starts above
\* the best_finalized number of the call; cached tallies are contiguous too.
C8_AncestryContiguous ==
    /\ Returned =>
         /\ Contiguous(Ancestry)
         /\ Ancestry[1].id.number > result.best_finalized.number
         /\ Ancestry[Len(Ancestry)].id = result.id
    /\ \A h \in DOMAIN finality_cache : Contiguous(finality_cache[h].ancestry)

\* C8 witness: a cached snapshot, an unaccounted header after it and the
\* imported header make up the ancestry.
C8_Witness ==
    /\ Returned
    /\ result.cached.votes # <<>>
    /\ result.cached.unaccounted_ancestry # <<>>
    /\ Len(Ancestry) = 3

\* C8 witness for a replay of two unaccounted headers.
C8_WitnessReplay ==
    /\ Returned
    /\ Len(result.cached.unaccounted_ancestry) >= 2

\* C9: the returned tally is the merged tally of prepare_votes: it still
\* holds the entry and the votes of every header in finalized_headers, and
\* best_finalized is what it was when the call was made.
C9_ReturnedTallyUnpruned ==
    Returned =>
      /\ result.votes = prepare_votes(result.cached, result.best_finalized.number,
                                      validators_set, result.id, result.header,
                                      result.submitter).votes
      /\ \A i \in DOMAIN result.finalized_headers :
           \E j \in DOMAIN Ancestry :
             /\ Ancestry[j].id = result.finalized_headers[i][1]
             /\ Ancestry[j].signers \subseteq DOMAIN result.votes.votes
      /\ best_finalized = result.best_finalized

\* C9 witness: a call that finalizes a header.
C9_Witness ==
    /\ Returned
    /\ result.finalized_headers # <<>>
    /\ best_finalized = result.best_finalized

\* C10: whenever the parent of the imported header has an entry in the
\* returned tally, that entry credits the empty-step signers sealed in the
\* imported header, and the entry of the imported header credits its author
\* alone.
C10_StepsCreditParent ==
    Returned =>
      /\ Ancestry[Len(Ancestry)].signers = {result.header.author}
      /\ Len(Ancestry) >= 2 =>
           empty_steps_signers(result.header) \subseteq Ancestry[Len(Ancestry) - 1].signers

\* The unaccounted ancestry of the call, newest first; entry q of it is
\* entry Len(Ancestry) - q of the returned ancestry.
Unaccounted == result.cached.unaccounted_ancestry
Replayed(q) == Ancestry[Len(Ancestry) - q]

\* The immediate child of unaccounted header q: the next newer header of the
\* tail, or the importing header.
ChildOf(q) == IF q = 1 THEN result.header ELSE Unaccounted[q - 1].header

\* The cached tally after the prune loop.
PrunedCached == remove_finalized_votes(CachedTally, result.best_finalized.number).votes

\* C11: the entry appended for an unaccounted header H has signers = {author
\* of H} united with the empty-step signers of H's immediate child, and every
\* address gets one vote per appended entry that credits it.
C11_ReplayedSigners ==
    Returned =>
      /\ Len(Ancestry) > Len(Unaccounted)
      /\ \A q \in DOMAIN Unaccounted :
           /\ Replayed(q).id = Unaccounted[q].id
           /\ Replayed(q).signers =
                {Unaccounted[q].header.author} \cup empty_steps_signers(ChildOf(q))
      /\ \A a \in Addresses :
           VotesOf(result.votes, a) =
             VotesOf(PrunedCached, a)
             + Cardinality({q \in DOMAIN Unaccounted :
                              a \in {Unaccounted[q].header.author}
                                      \cup empty_steps_signers(ChildOf(q))})
             + (IF a = result.header.author THEN 1 ELSE 0)

\* C11 witness: the author of an unaccounted header also signed an empty step
\* sealed in its child, and the header seals other empty steps than its child.
C11_Witness ==
    /\ Returned
    /\ \E q \in DOMAIN Unaccounted :
         /\ Unaccounted[q].header.author \in empty_steps_signers(ChildOf(q))
         /\ empty_steps_signers(Unaccounted[q].header) # empty_steps_signers(ChildOf(q))
         /\ VotesOf(result.votes, Unaccounted[q].header.author) = 1

\* The threshold test of entry j against all votes of entries j..end.
PassesAt(j) == Passes(Ancestry[j].id.number, VotersFrom(j))

\* C12: entry i of the returned ancestry is in finalized_headers iff every
\* entry j <= i passes its own threshold with the distinct validators credited
\* by the entries j..end.
C12_WalkCharacterisation ==
    Returned =>
      \A i \in DOMAIN Ancestry :
        (/\ i <= Len(result.finalized_headers)
         /\ result.finalized_headers[i] = <<Ancestry[i].id, Ancestry[i].submitter>>)
        <=> (\A j \in 1..i : PassesAt(j))

\* C12 witness: a validator credited on the first two entries still counts
\* when the second one is examined, and both are finalized.
C12_Witness ==
    /\ Returned
    /\ Len(result.finalized_headers) = 2
    /\ Len(Ancestry) >= 3
    /\ Ancestry[1].signers \cap Ancestry[2].signers # {}
    /\ Cardinality(UNION {Ancestry[j].signers : j \in 2..Len(Ancestry)} \ Ancestry[1].signers) * 2
         <= Cardinality(validators_set)

Reverse(seq) == [i \in 1..Len(seq) |-> seq[Len(seq) + 1 - i]]

\* C13: the returned ancestry is the cached ancestry without its finalized
\* leading entries, then the unaccounted headers oldest first, then one entry
\* for the importing header with its id, its submitter and signers = {author};
\* that entry adds exactly one vote to the author.
C13_MergedAncestry ==
    Returned =>
      LET kept == PrunedCached.ancestry
          tail == Reverse(Unaccounted)
          own == Ancestry[Len(Ancestry)]
      IN /\ Len(Ancestry) = Len(kept) + Len(tail) + 1
         /\ SubSeq(Ancestry, 1, Len(kept)) = kept
         /\ kept = SubSeq(CachedAncestry, Len(CachedAncestry) - Len(kept) + 1, Len(CachedAncestry))
         /\ \A i \in DOMAIN kept : kept[i].id.number > result.best_finalized.number
         /\ \A i \in DOMAIN tail :
              /\ Ancestry[Len(kept) + i].id = tail[i].id
              /\ Ancestry[Len(kept) + i].submitter = tail[i].submitter
         /\ own = [id |-> result.id, submitter |-> result.submitter,
                   signers |-> {result.header.author}]
         /\ VotesOf(result.votes, result.header.author)
              = Credits(SubSeq(Ancestry, 1, Len(Ancestry) - 1), result.header.author) + 1

\* C13 witness: all three parts are present, the importing header has a
\* submitter, and its author was credited before.
C13_Witness ==
    /\ Returned
    /\ PrunedCached.ancestry # <<>>
    /\ Unaccounted # <<>>
    /\ result.submitter # None
    /\ VotesOf(result.votes, result.header.author) >= 2

\* The signers credited to unaccounted header q during the replay.
CreditedSigners(q) ==
    {Unaccounted[q].header.author} \cup empty_steps_signers(ChildOf(q))

\* C14: a call whose replay credits a signer outside the validators set, for
\* any header of the unaccounted tail, returns NotValidator.
C14_ReplayNotValidator ==
    (/\ result.status # "None"
     /\ \E q \in DOMAIN Unaccounted : ~(CreditedSigners(q) \subseteq validators_set))
      => result.status = "NotValidator"

\* C14 witness: the author and the newest unaccounted header pass, and an
\* older header of the tail is credited with a signer that is no validator.
C14_Witness ==
    /\ result.status = "NotValidator"
    /\ result.header.author \in validators_set
    /\ Len(Unaccounted) >= 2
    /\ CreditedSigners(1) \subseteq validators_set
    /\ ~(CreditedSigners(2) \subseteq validators_set)

\* The unaccounted headers whose credited signers are not all validators.
FailingReplays ==
    {q \in DOMAIN Unaccounted : ~(CreditedSigners(q) \subseteq validators_set)}

\* The arguments of the pending call make it fail: its author or a signer
\* credited by the replay is outside the validators set.
FailingCall ==
    /\ result.status # "None"
    /\ (result.header.author \notin validators_set \/ FailingReplays # {})

\* The replay adds at least one vote before it meets the rejected signer: the
\* newest failing header is not the first one replayed, or a validator is
\* ahead of the rejected signer in the signers set (BTreeSet order).
VotesAddedBeforeFailure ==
    /\ result.status # "None"
    /\ result.header.author \in validators_set
    /\ FailingReplays # {}
    /\ LET q == Min(FailingReplays) IN
         \/ q > 1
         \/ \E a \in CreditedSigners(q) \cap validators_set :
              a < Min(CreditedSigners(q) \ validators_set)

\* What the host keeps between imports.
HostState == <<headers, finality_cache, best_finalized, finalized_log>>

\* C15: a call whose author or replayed signers are not all validators ends
\* as NotValidator and as nothing else (not as a success carrying the votes
\* added before the rejected signer): no tally and no finalized headers come
\* with it, and the stored headers, the cached tallies and best_finalized
\* stay as they were before the call, whatever the host does next.
C15_ErrorIsAtomic ==
    [][FailingCall =>
         /\ result.status = "NotValidator"
         /\ result.votes = DefaultFinalityVotes
         /\ result.finalized_headers = <<>>
         /\ HostState' = HostState
         /\ result.best_finalized = best_finalized
         /\ result'.status = "None"]_vars

\* C15 witness: the call was rejected after the replay had added votes for
\* earlier signers, while the host holds cached tallies.
C15_Witness ==
    /\ result.status = "NotValidator"
    /\ VotesAddedBeforeFailure
    /\ DOMAIN finality_cache # {}

\* C16: the unreachable! of remove_signers_votes is never hit: no call, made
\* with an absent snapshot or a tally an earlier call returned, ends in a
\* removal of a vote that the map does not hold.
C16_RemoveNeverPanics ==
    /\ result.status # "Panic"
    /\ result.status # "None" =>
         /\ ~remove_finalized_votes(CachedTally, result.best_finalized.number).panic
         /\ result.status = "Ok" =>
              ~finalized_walk(validators_set, result.votes.ancestry, result.votes.votes,
                              transition, <<>>).panic

\* C16 witness: a successful call whose prune loop removed the last vote of a
\* signer from a cached tally and whose walk removed votes as well.
C16_Witness ==
    /\ result.status = "Ok"
    /\ result.cached.votes # <<>>
    /\ DOMAIN PrunedCached.votes # DOMAIN CachedTally.votes
    /\ result.finalized_headers # <<>>

\* C17: no header is finalized twice. The headers reported by the calls the
\* host committed are pairwise different, and every header a call reports has
\* a number above the best_finalized number passed to that call and was not
\* reported by any committed call before.
C17_NoDoubleFinalization ==
    /\ \A i, j \in DOMAIN finalized_log :
         i # j => finalized_log[i].id # finalized_log[j].id
    /\ Returned =>
         \A k \in DOMAIN result.finalized_headers :
           /\ result.finalized_headers[k][1].number > result.best_finalized.number
           /\ \A i \in DOMAIN finalized_log :
                finalized_log[i].id # result.finalized_headers[k][1]

\* C17 witness: a call that follows a committed finalization, starts from a
\* cached tally that still holds the header finalized before, and reports a
\* further header.
C17_Witness ==
    /\ Returned
    /\ finalized_log # <<>>
    /\ \E i \in DOMAIN CachedAncestry, j \in DOMAIN finalized_log :
         CachedAncestry[i].id = finalized_log[j].id
    /\ result.finalized_headers # <<>>
    /\ best_finalized = finalized_log[Len(finalized_log)].id

(* ------------------------- round-robin runs --------------------------- *)

\* Length of the round-robin chains.
MaxRotation == 12

\* Validators 1..n, the majority rule in force for every header of the chain.
InitRotation ==
    /\ headers = <<>>
    /\ finality_cache = [h \in {} |-> DefaultFinalityVotes]
    /\ best_finalized = GenesisId
    /\ validators_set \in {1..n : n \in 1..MaxValidators}
    /\ transition = MaxRotation + 1
    /\ result = NoResult
    /\ finalized_log = <<>>

\* Header #k is authored by validator ((k - 1) mod n) + 1, without empty steps;
\* after every call the host stores the tally and advances best_finalized.
NextRotation ==
    \/ CallFinalizeBlocks(MaxRotation, (Len(headers) % Cardinality(validators_set)) + 1,
                          <<>>, None)
    \/ CommitHeader(MaxRotation, TRUE)

SpecRotation == InitRotation /\ [][NextRotation]_vars

\* floor(n / 2) for the n validators of the run.
Delay == Cardinality(validators_set) \div 2

\* C18: under rotation header #k is reported finalized at the import of header
\* #(k + floor(n/2)) and at no other import: every committed report was made
\* at that import, once the chain has m headers exactly #1..#(m - floor(n/2))
\* have been reported, in order, and the call importing #m reports exactly the
\* one header #(m - floor(n/2)) when m > floor(n/2) and nothing before.
C18_RotationResponse ==
    /\ result.status \in {"None", "Ok"}
    /\ \A i \in DOMAIN finalized_log :
         /\ finalized_log[i].at = finalized_log[i].id.number + Delay
         /\ finalized_log[i].id.number = i
         /\ finalized_log[i].id =
              IF i <= Len(headers) THEN headers[i].id ELSE result.id
    /\ Len(finalized_log) = IF Len(headers) > Delay THEN Len(headers) - Delay ELSE 0
    /\ Returned =>
         LET m == result.id.number IN
           IF m > Delay
           THEN /\ Len(result.finalized_headers) = 1
                /\ result.finalized_headers[1][1] =
                     IF Delay = 0 THEN result.id ELSE headers[m - Delay].id
           ELSE result.finalized_headers = <<>>

\* C18 witness: five validators, headers #1..#3 finalized by the imports of
\* #3..#5, and the import of a later header reporting the next one.
C18_Witness ==
    /\ validators_set = 1..5
    /\ Len(finalized_log) >= 3
    /\ Returned
    /\ result.id.number >= 6
    /\ Len(result.finalized_headers) = 1
    /\ result.finalized_headers[1][1].number = result.id.number - 2

====
